---- MODULE Spec2Model ----
(***************************************************************************)
(* A model of ringo-sqlstore's Store (lib/ringo/storage/sql/store.js) and  *)
(* of the schema utilities it uses (lib/ringo/storage/sql/util.js).        *)
(*                                                                         *)
(* The Store's handlers are state transformers over a "world" record: the  *)
(* connection pool, the database (committed rows, the uncommitted work of  *)
(* each connection, the id sequence), the cached dialect, the transaction  *)
(* objects, and the keys and entity data of the storables.  A handler      *)
(* returns [w, thr, ret]: the world it leaves, whether it threw, and what  *)
(* it returned.  The parameter fp names the JDBC call that throws during   *)
(* the handler ("none": no call throws).                                   *)
(***************************************************************************)
EXTENDS Integers, Sequences, FiniteSets, TLC

\* ------------------------------------------------------------------ bounds
NumConns == 3
MaxOps == 2
MaxLong == 3
MaxVal == 2
MaxCalls == 2
MaxConc == 4
MaxSchema == 3
MaxReads == 3
MaxLoads == 1
MaxRows == 3

\* --------------------------------------------------------------- constants
Null == 0
NoTxn == "none"
NoEnt == "none"
KeyBase == 10
MySQLVersion == 5
Type == "T"
TableName == "t"
SequenceName == "t_id"

Conns == 1..NumConns
Ents == {"a", "b"}
Txns == {"t1"}
\* As many transactions as the pool has connections.
TxnNames == <<"t1", "t2", "t3", "t4">>
PoolTxns == {TxnNames[i] : i \in 1..NumConns}
Vals == 1..MaxVal
Callers == 1..MaxCalls

\* The mappings: does the type have an id sequence, is its property unique,
\* is the property's column named unlike the property, does it have a default.
Mappings == [hasIdSequence : BOOLEAN, unique : BOOLEAN, renamed : BOOLEAN, default : BOOLEAN]
PlainMappings == {m \in Mappings : ~m.renamed /\ ~m.default}
NoMapping == [hasIdSequence |-> FALSE, unique |-> FALSE, renamed |-> FALSE, default |-> FALSE]

VARIABLES
    product,    \* the database product behind the pool: "H2", "MySQL", ...
    version,    \* the database's major version
    registry,   \* Store: var entityRegistry (store.js:34), the type names defined
    mapping,    \* the Mapping of the registered entity type
    tables,     \* the names of the tables the database has
    sequences,  \* the names of the sequences the database has
    dialect,    \* Store: var dialect (store.js:33), "null" until determined
    conns,      \* the pool's connections: checked out?, autocommit, read-only, isolation
    rows,       \* the committed rows of the entity's table
    pend,       \* per connection: rows inserted / deleted but not yet committed
    seq,        \* the next value of the id sequence
    stmts,      \* number of open statements
    cursors,    \* number of open result sets
    txn,        \* the Transaction objects
    key,        \* [Ents -> id]: entity._key.id, Null while transient
    props,      \* [Ents -> value]: the storable's property bag
    ent,        \* [Ents -> value]: the entity data object (what is written to the row)
    call,       \* the last Store call: what it was, what it did
    left,       \* number of calls the callers still make
    pc,         \* [Callers -> position] of a caller inside insert (concurrent callers)
    nextId,     \* [Callers -> id]: insert's local nextId
    getter,     \* [Callers -> ...]: a caller inside the getter of dialect
    idLog,      \* the ids generateId has returned, in order
    inserts     \* number of rows INSERT statements have added to the table

vars == <<product, version, registry, mapping, tables, sequences, dialect, conns, rows, pend, seq, stmts, cursors, txn,
          key, props, ent, call, left, pc, nextId, getter, idLog, inserts>>

\* ------------------------------------------------------------- the world
\* What a handler reads and writes.  acq counts the connections the call has
\* taken from the pool, log lists the statements it has executed.
World ==
    [registry |-> registry, mapping |-> mapping, tables |-> tables,
     sequences |-> sequences, dialect |-> dialect, conns |-> conns, rows |-> rows, pend |-> pend, seq |-> seq,
     stmts |-> stmts, cursors |-> cursors, txn |-> txn, key |-> key, props |-> props,
     ent |-> ent, idLog |-> idLog, inserts |-> inserts, acq |-> 0, closes |-> 0,
     log |-> <<>>]

Ok(w, r) == [w |-> w, thr |-> FALSE, ret |-> r]
Thr(w) == [w |-> w, thr |-> TRUE, ret |-> Null]

\* var v = ...; K(v)
Let(v, K(_)) == K(v)
\* var r = <a call>; K(r), unless the call threw: then the exception goes on.
Bind(r, K(_)) == IF r.thr THEN Thr(r.w) ELSE K(r)

\* A property value: an integer (k = "int", n), a storable (k = "ref", r), an
\* array holding a storable and an integer (k = "arr", r and n), and, once
\* updateEntity has substituted keys, "key" and "arrk".
IntVal(n) == [k |-> "int", n |-> n, r |-> NoEnt]
RefVal(e) == [k |-> "ref", n |-> 0, r |-> e]
ArrVal(e, n) == [k |-> "arr", n |-> n, r |-> e]
PropVals(e) ==
    {IntVal(n) : n \in Vals}
      \cup (IF e = "a" THEN {RefVal("b")} \cup {ArrVal("b", n) : n \in {1}} ELSE {})

\* ------------------------------------------------------ the connection pool
FreeConns(w) == {c \in Conns : ~w.conns[c].out}

\* connectionPool.getConnection(): a connection that is not checked out (the
\* lowest one).
GetConnection(w) == CHOOSE c \in FreeConns(w) : \A d \in FreeConns(w) : c <= d

Checkout(w, c) ==
    [w EXCEPT !.conns[c].out = TRUE, !.acq = @ + 1]

\* ------------------------------------------------------------ the database
NoPending == [ins |-> {}, del |-> {}]

\* The rows a statement on connection c sees: the committed rows and the
\* connection's own uncommitted work.
View(w, c) == (w.rows \ w.pend[c].del) \cup w.pend[c].ins

InTransaction(w, c) == w.pend[c] # NoPending

CommitConn(w, c) ==
    [w EXCEPT !.rows = (@ \ w.pend[c].del) \cup w.pend[c].ins, !.pend[c] = NoPending]

RollbackConn(w, c) == [w EXCEPT !.pend[c] = NoPending]

\* java.sql.Connection.setAutoCommit: changing the mode during a transaction
\* commits it.
SetAutoCommit(w, c, b) ==
    [(IF InTransaction(w, c) /\ w.conns[c].ac # b THEN CommitConn(w, c) ELSE w)
        EXCEPT !.conns[c].ac = b]

\* A connection that ignores setReadOnly.
SetReadOnly_Ignored(w, c, b) == w

\* java.sql.Connection.setTransactionIsolation: "if this method is called
\* during a transaction, the result is implementation-defined".  H2's driver
\* commits the open transaction, also when the level stays the same; MySQL's
\* does not.
IsolationCommits == product = "H2"
SetTransactionIsolation(w, c, level) ==
    [(IF InTransaction(w, c) /\ IsolationCommits THEN CommitConn(w, c) ELSE w)
        EXCEPT !.conns[c].iso = level]

SetReadOnly(w, c, b) == [w EXCEPT !.conns[c].ro = b]

\* The table's primary key is the id column and every property mapped unique.
SamePK(x, y) == x.id = y.id /\ (mapping.unique => x.val = y.val)

OthersInserted(w, c) == UNION {w.pend[d].ins : d \in Conns \ {c}}
OthersDeleted(w, c) == UNION {w.pend[d].del : d \in Conns \ {c}}

\* INSERT of row on connection c: [w, thr, ret = rows affected].  It fails on a
\* primary key that is taken, also by a row another connection has not
\* committed yet (the statement waits for that lock and times out).
ExecInsert(w, c, row) ==
    IF TableName \notin w.tables THEN Thr(w)
    ELSE IF \E x \in View(w, c) \cup OthersInserted(w, c) : SamePK(x, row)
    THEN Thr(w)
    ELSE IF w.conns[c].ac
         THEN Ok([w EXCEPT !.rows = @ \cup {row}, !.inserts = @ + 1], 1)
         ELSE Ok([w EXCEPT !.pend[c].ins = @ \cup {row}, !.inserts = @ + 1], 1)

\* UPDATE ... SET val WHERE id = id on connection c.
ExecUpdate(w, c, id, val) ==
    LET matched == {x \in View(w, c) : x.id = id}
        new == IF matched = {} THEN {} ELSE {[id |-> id, val |-> val]}
    IN  IF \/ TableName \notin w.tables
           \/ matched \cap OthersDeleted(w, c) # {} \/ Cardinality(matched) > 1
        THEN Thr(w)
        ELSE IF w.conns[c].ac
             THEN Ok([w EXCEPT !.rows = (@ \ matched) \cup new], Cardinality(matched))
             ELSE Ok([w EXCEPT !.pend[c].del = @ \cup (matched \cap w.rows),
                               !.pend[c].ins = (@ \ matched) \cup new],
                     Cardinality(matched))

\* DELETE ... WHERE id = id on connection c.
\* A DELETE without its WHERE clause.
ExecDelete_Everything(w, c, id) ==
    IF TableName \notin w.tables THEN Thr(w)
    ELSE Ok([w EXCEPT !.rows = {}], Cardinality({x \in View(w, c) : x.id = id}))

ExecDelete(w, c, id) ==
    LET matched == {x \in View(w, c) : x.id = id}
    IN  IF TableName \notin w.tables \/ matched \cap OthersDeleted(w, c) # {}
        THEN Thr(w)
        ELSE IF w.conns[c].ac
             THEN Ok([w EXCEPT !.rows = @ \ matched], Cardinality(matched))
             ELSE Ok([w EXCEPT !.pend[c].del = @ \cup (matched \cap w.rows),
                               !.pend[c].ins = @ \ matched],
                     Cardinality(matched))

SetMax(S) == IF S = {} THEN Null ELSE CHOOSE m \in S : \A x \in S : x <= m

\* The statement a call executes: its kind, its connection and the
\* connection's modes at that time, and the entity it is for.
LogStmt(w, k, c, e) ==
    [w EXCEPT !.log = Append(@, [k |-> k, c |-> c, e |-> e, ac |-> w.conns[c].ac,
                                 ro |-> w.conns[c].ro, iso |-> w.conns[c].iso,
                                 open |-> w.conns[c].out])]

OpenStatement(w) == [w EXCEPT !.stmts = @ + 1]
OpenResultSet(w) == [w EXCEPT !.cursors = @ + 1]

\* ------------------------------------------------------------------ util.js
\* close(obj): closes obj unless it is null.  A closed connection is back in
\* the pool, in the modes it was left in.
CloseResultSet(w, resultSet) == IF resultSet THEN [w EXCEPT !.cursors = @ - 1] ELSE w
CloseStatement(w, statement) == IF statement THEN [w EXCEPT !.stmts = @ - 1] ELSE w
CloseConnection(w, c) ==
    IF c # Null THEN [w EXCEPT !.conns[c].out = FALSE, !.closes = @ + 1] ELSE w

\* A JDBC call on connection c throws: c has been closed, and the pool's
\* connections reject calls after close (strict; otherwise they still serve
\* them, the connection being back in the pool).
Rejects(w, c, strict) == strict /\ ~w.conns[c].out

\* The finally block of createTable, createSequence and drop.
DdlFinally(w, statement, c) == CloseConnection(CloseStatement(w, statement), c)

\* createTable(conn, dialect, tableName, columns, primaryKey); typeKnown: the
\* dialect has a column type for every column.
UtilCreateTable(w, c, typeKnown, fp, strict) ==
    IF ~typeKnown THEN Thr(w)
    ELSE IF Rejects(w, c, strict) \/ fp = "ct.create" THEN Thr(DdlFinally(w, FALSE, c))
    ELSE
    Let(LogStmt(OpenStatement(SetReadOnly(w, c, FALSE)), "CREATE TABLE", c, NoEnt), LAMBDA w2 :
        IF fp = "ct.exec" \/ TableName \in w2.tables THEN Thr(DdlFinally(w2, TRUE, c))
        ELSE Ok(DdlFinally([w2 EXCEPT !.tables = @ \cup {TableName}], TRUE, c), 0))

\* createSequence(conn, dialect, sequenceName)
CreateSequence(w, c, fp, strict) ==
    IF Rejects(w, c, strict) \/ fp = "cs.create" THEN Thr(DdlFinally(w, FALSE, c))
    ELSE
    Let(LogStmt(OpenStatement(SetReadOnly(w, c, FALSE)), "CREATE SEQUENCE", c, NoEnt), LAMBDA w2 :
        IF fp = "cs.exec" \/ SequenceName \in w2.sequences THEN Thr(DdlFinally(w2, TRUE, c))
        ELSE Ok(DdlFinally([w2 EXCEPT !.sequences = @ \cup {SequenceName}], TRUE, c), 0))

\* getColumns(dbMetaData, tablePattern, schemaPattern)
GetColumns(w, fp) ==
    IF fp = "gc.meta" THEN Thr(w)
    ELSE IF fp = "gc.read" THEN Thr(CloseResultSet(OpenResultSet(w), TRUE))
    ELSE Ok(CloseResultSet(OpenResultSet(w), TRUE), Null)

\* getPrimaryKeys(dbMetaData, tableName, schemaName)
GetPrimaryKeys(w, fp) ==
    IF fp = "pk.meta" THEN Thr(w)
    ELSE IF fp = "pk.read" THEN Thr(CloseResultSet(OpenResultSet(w), TRUE))
    ELSE Ok(CloseResultSet(OpenResultSet(w), TRUE), Null)

\* The finally block of getTables.
GetTablesFinally(w, tableMetaData, c) == CloseConnection(CloseResultSet(w, tableMetaData), c)

\* getTables: the body of the loop, for the tables there are.
DescribeTables(w, fp) ==
    IF w.tables = {} THEN Ok(w, Null)
    ELSE Bind(GetColumns(w, fp), LAMBDA gc : GetPrimaryKeys(gc.w, fp))

\* getTables(conn); ret is the set of the tables' names.
GetTables(w, c, fp, strict) ==
    IF Rejects(w, c, strict) \/ fp = "gt.meta" THEN Thr(GetTablesFinally(w, FALSE, c))
    ELSE
    Let(OpenResultSet(LogStmt(w, "META", c, NoEnt)), LAMBDA w1 :
        IF fp = "gt.read" THEN Thr(GetTablesFinally(w1, TRUE, c))
        ELSE
    Let(DescribeTables(w1, fp), LAMBDA d :
        IF d.thr THEN Thr(GetTablesFinally(d.w, TRUE, c))
        ELSE Ok(GetTablesFinally(d.w, TRUE, c), w.tables)))

\* tableExists(conn, tableName)
TableExists(w, c, tableName, fp, strict) ==
    Bind(GetTables(w, c, fp, strict), LAMBDA r : Ok(r.w, tableName \in r.ret))

\* What DROP typeName objectName leaves.
Dropped(w, typeName) ==
    IF typeName = "TABLE" THEN [w EXCEPT !.tables = @ \ {TableName}, !.rows = {}]
    ELSE [w EXCEPT !.sequences = @ \ {SequenceName}, !.seq = 1]
HasObject(w, typeName) ==
    IF typeName = "TABLE" THEN TableName \in w.tables ELSE SequenceName \in w.sequences

\* drop(conn, dialect, typeName, objectName, schemaName)
Drop(w, c, typeName, fp, strict) ==
    IF Rejects(w, c, strict) \/ fp = "d.create" THEN Thr(DdlFinally(w, FALSE, c))
    ELSE
    Let(LogStmt(OpenStatement(SetReadOnly(w, c, FALSE)), "DROP", c, NoEnt), LAMBDA w2 :
        IF fp = "d.exec" \/ ~HasObject(w2, typeName) THEN Thr(DdlFinally(w2, TRUE, c))
        ELSE Ok(DdlFinally(Dropped(w2, typeName), TRUE, c), Null))

\* dropTable(conn, dialect, tableName, schemaName)
DropTable(w, c, fp, strict) == Drop(w, c, "TABLE", fp, strict)

\* dropSequence(conn, dialect, sequenceName, schemaName)
DropSequence(w, c, fp, strict) == Drop(w, c, "SEQUENCE", fp, strict)

\* ----------------------------------------------------------------- store.js
\* ./databases/h2 and ./databases/mysql5: hasSequenceSupport().
HasSequenceSupport(d) == d = "h2"

\* determineDialect: is the MySQL version one there is a dialect for?
SupportedVersion_Any(v) == TRUE
SupportedVersion(v) == v = MySQLVersion

\* A finally block that leaves the connection open.
ReadMetaData_KeepsConnection(w, c, fp) ==
    IF fp = "dd.meta" THEN Thr(w)
    ELSE IF product = "H2" THEN Ok(LogStmt(w, "META", c, NoEnt), "h2")
    ELSE IF product = "MySQL" /\ SupportedVersion(version)
         THEN Ok(LogStmt(w, "META", c, NoEnt), "mysql5")
    ELSE Thr(LogStmt(w, "META", c, NoEnt))

\* determineDialect, once it has the connection c: try ... finally.
ReadMetaData(w, c, fp) ==
    IF fp = "dd.meta" THEN Thr(CloseConnection(w, c))
    ELSE Let(CloseConnection(LogStmt(w, "META", c, NoEnt), c), LAMBDA w3 :
             IF product = "H2" THEN Ok(w3, "h2")
             ELSE IF product = "MySQL" /\ SupportedVersion(version) THEN Ok(w3, "mysql5")
             ELSE Thr(w3))

\* Store.prototype.determineDialect
DetermineDialect(w, fp) ==
    Let(GetConnection(w), LAMBDA c : ReadMetaData(Checkout(w, c), c, fp))

\* A registry that has a constructor for every name.
GetEntityConstructor_Lenient(w, type) == Ok(w, type)

\* Store.getEntityConstructor
GetEntityConstructor(w, type) == IF type \in w.registry THEN Ok(w, type) ELSE Thr(w)

\* Store.prototype.getEntityMapping
GetEntityMapping(w, type) ==
    Bind(GetEntityConstructor(w, type), LAMBDA r : Ok(r.w, r.w.mapping))

\* A getter that does not keep the dialect it determined.
DialectGet_NoCache(w, fp) ==
    IF w.dialect = "null"
    THEN Bind(DetermineDialect(w, fp), LAMBDA r : Ok(r.w, r.ret))
    ELSE Ok(w, w.dialect)

\* The getter of Store's dialect property.
DialectGet(w, fp) ==
    IF w.dialect = "null"
    THEN Bind(DetermineDialect(w, fp), LAMBDA r : Ok([r.w EXCEPT !.dialect = r.ret], r.ret))
    ELSE Ok(w, w.dialect)

\* Store.prototype.createTable; ptype is the type the mapping gives the
\* property: "integer", "unknown" (to the dialect) or "none".
StoreCreateTable(w, c, ptype, fp, strict) ==
    IF ptype = "none" THEN Thr(w)
    ELSE UtilCreateTable(w, c, ptype # "unknown", fp, strict)

\* A registry that forgets.
IsDefined_Never(w, type) == FALSE

\* defineEntity: is the type in the registry?
IsDefined(w, type) == type \in w.registry

\* defineEntity: does the type get a sequence?
NeedsSequence(m, d) == m.hasIdSequence /\ HasSequenceSupport(d)

\* defineEntity, once the table was found missing (store.js:72-75).
CreateSchema(w, c, m, ptype, fp, strict) ==
    Bind(DialectGet(w, fp), LAMBDA d :
    Bind(StoreCreateTable(d.w, c, ptype, fp, strict), LAMBDA ct :
        IF NeedsSequence(m, d.ret)
        THEN Bind(CreateSequence(ct.w, c, fp, strict), LAMBDA cs : Ok(cs.w, m))
        ELSE Ok(ct.w, m)))

\* Store.defineEntity; ret is the mapping of the registration returned.
DefineEntity(w, type, m, ptype, fp, strict) ==
    IF IsDefined(w, type) THEN Ok(w, w.mapping)
    ELSE
    Let(Checkout([w EXCEPT !.registry = @ \cup {type}, !.mapping = m], GetConnection(w)),
        LAMBDA w1 :
    Bind(TableExists(w1, GetConnection(w), TableName, fp, strict), LAMBDA te :
        IF te.ret THEN Ok(te.w, m)
        ELSE CreateSchema(te.w, GetConnection(w), m, ptype, fp, strict)))

\* Store.prototype.create
Create(w, type, id) == Bind(GetEntityConstructor(w, type), LAMBDA r : Ok(r.w, id))

\* A finally block that does not close the connection.
QueryFinally_KeepsConnection(w, resultSet, statement, c) ==
    CloseStatement(CloseResultSet(w, resultSet), statement)

\* The finally block of query and of generateId.
QueryFinally(w, resultSet, statement, c) ==
    CloseConnection(CloseStatement(CloseResultSet(w, resultSet), statement), c)

\* SELECT ... WHERE id = q on connection c (q = Null: no WHERE).
Select(w, c, q) == IF q = Null THEN View(w, c) ELSE {x \in View(w, c) : x.id = q}

\* Store.prototype.query of the statement sql, WHERE id = q; ret is the set of
\* rows the result set holds.  fp = "q.type": the dialect does not know the
\* JDBC type of a column.
Query(w, sql, q, fp) ==
    Let(GetConnection(w), LAMBDA c :
    Let(SetReadOnly(Checkout(w, c), c, TRUE), LAMBDA w1 :
        IF fp = "q.create" THEN Thr(QueryFinally(w1, FALSE, FALSE, c))
        ELSE
    Let(LogStmt(OpenStatement(w1), sql, c, NoEnt), LAMBDA w2 :
        IF fp = "q.exec" \/ TableName \notin w2.tables
        THEN Thr(QueryFinally(w2, FALSE, TRUE, c))
        ELSE
    Let(OpenResultSet(w2), LAMBDA w3 :
        IF Select(w3, c, q) = {} THEN Ok(QueryFinally(w3, TRUE, TRUE, c), {})
        ELSE
    Let(DialectGet(w3, fp), LAMBDA d :
        IF d.thr \/ fp \in {"q.read", "q.type"} THEN Thr(QueryFinally(d.w, TRUE, TRUE, c))
        ELSE Ok(QueryFinally(d.w, TRUE, TRUE, c), Select(w3, c, q)))))))

\* generateId taking every id from the sequence, and none.
UseSequence_Always(d) == TRUE
UseSequence_Never(d) == FALSE

\* generateId: does the id come from the sequence?
UseSequence(d) == mapping.hasIdSequence /\ HasSequenceSupport(d)

\* generateId: the statement's result, the sequence's next value or MAX(id),
\* and the offset added to it.
IdValue(w, c, seqMode) == IF seqMode THEN w.seq ELSE SetMax({x.id : x \in View(w, c)})
IdOffset(seqMode) == IF seqMode THEN 0 ELSE 1
NextValue(w, seqMode) == IF seqMode THEN [w EXCEPT !.seq = @ + 1] ELSE w

\* generateId returns id.
Generated(w, id) == Ok([w EXCEPT !.idLog = Append(@, id)], id)

\* The statement of generateId reads the sequence, or the table.
HasSource(w, seqMode) ==
    IF seqMode THEN SequenceName \in w.sequences ELSE TableName \in w.tables

\* Store.prototype.generateId
GenerateId(w, fp) ==
    Bind(GetEntityMapping(w, Type), LAMBDA m :
    Bind(DialectGet(m.w, fp), LAMBDA d :
    Let(GetConnection(d.w), LAMBDA c :
    Let(Checkout(d.w, c), LAMBDA w1 :
        IF fp = "g.create" THEN Thr(QueryFinally(w1, FALSE, FALSE, c))
        ELSE
    Let(LogStmt(OpenStatement(w1), "GENID", c, NoEnt), LAMBDA w2 :
        IF fp = "g.exec" \/ ~HasSource(w2, UseSequence(d.ret))
        THEN Thr(QueryFinally(w2, FALSE, TRUE, c))
        ELSE
    Let(OpenResultSet(NextValue(w2, UseSequence(d.ret))), LAMBDA w3 :
        IF fp = "g.read" THEN Thr(QueryFinally(w3, TRUE, TRUE, c))
        ELSE Generated(QueryFinally(w3, TRUE, TRUE, c),
                       IdValue(w2, c, UseSequence(d.ret)) + IdOffset(UseSequence(d.ret)))))))))

\* The value a property is bound to in a statement: an integer as it is, a Key
\* (and an array of keys) by the key's id.
DbValue(w, v) ==
    IF v.k = "int" THEN v.n
    ELSE IF v.k = "key" THEN KeyBase + w.key[v.r]
    ELSE KeyBase * (v.n + 1) + w.key[v.r]

\* Key.isPersistent()
IsPersistent(w, e) == w.key[e] # Null

\* The setter of Key.id: a key takes an id once; a second assignment is
\* rejected (it throws when keyThrows, else it is ignored).
SetKeyId(w, e, id, keyThrows) ==
    IF w.key[e] = Null THEN Ok([w EXCEPT !.key[e] = id], id)
    ELSE IF keyThrows THEN Thr(w) ELSE Ok(w, id)

\* Transaction.getConnection()
TxnConnection(w, t) == w.txn[t].conn

\* insert, update and remove: the connection the statement runs on, and its
\* modes (store.js:463-473, 537-547, 355-365).
\* A statement connection that is used in the mode it was handed out in when
\* there is no transaction.
StatementConnection_KeepsMode(w, t) ==
    IF t # NoTxn
    THEN [w |-> SetReadOnly(
                    SetAutoCommit(
                        SetTransactionIsolation(w, TxnConnection(w, t), "ser"),
                        TxnConnection(w, t), FALSE),
                    TxnConnection(w, t), FALSE),
          c |-> TxnConnection(w, t)]
    ELSE [w |-> Checkout(w, GetConnection(w)), c |-> GetConnection(w)]

StatementConnection(w, t) ==
    IF t # NoTxn
    THEN [w |-> SetReadOnly(
                    SetAutoCommit(
                        SetTransactionIsolation(w, TxnConnection(w, t), "ser"),
                        TxnConnection(w, t), FALSE),
                    TxnConnection(w, t), FALSE),
          c |-> TxnConnection(w, t)]
    ELSE [w |-> SetReadOnly(
                    SetAutoCommit(Checkout(w, GetConnection(w)), GetConnection(w), TRUE),
                    GetConnection(w), FALSE),
          c |-> GetConnection(w)]

\* The finally block of insert, update and remove.
WriteFinally(w, statement, c, t) ==
    IF t = NoTxn THEN CloseConnection(CloseStatement(w, statement), c)
    ELSE CloseStatement(w, statement)

\* An insert that writes the id into the key whatever the key holds.
InsertDone_Overwrites(w, e, t, id, keyThrows) ==
    Ok([(IF t # NoTxn THEN [w EXCEPT !.txn[t].inserted = Append(@, e)] ELSE w)
            EXCEPT !.key[e] = id], id)

\* insert: what follows executeUpdate (store.js:488-493).
InsertDone(w, e, t, id, keyThrows) ==
    SetKeyId(IF t # NoTxn THEN [w EXCEPT !.txn[t].inserted = Append(@, e)] ELSE w,
             e, id, keyThrows)

\* update and remove: what follows executeUpdate (store.js:558-561, 369-372).
UpdateDone(w, e, t) == IF t # NoTxn THEN [w EXCEPT !.txn[t].updated = Append(@, e)] ELSE w
RemoveDone(w, e, t) == IF t # NoTxn THEN [w EXCEPT !.txn[t].deleted = Append(@, e)] ELSE w

\* The value the database gives a column that has a default and that an
\* INSERT leaves out.
DefaultVal == KeyBase - 1

IsNull(v) == v.k = "int" /\ v.n = Null

\* insert, collecting the columns: entity[propMapping.column || propName].  The
\* entity holds its values under the names of the properties (updateEntity),
\* so under the name of a column that is named otherwise it holds nothing.
SkipTestValue(w, e) == IF w.mapping.renamed THEN IntVal(Null) ELSE w.ent[e]

\* insert: the property is in the column list.
Listed(w, e) == ~(IsNull(SkipTestValue(w, e)) /\ w.mapping.default)

\* insert: what the row gets in the property's column: the value bound from
\* entity[column.name] (NULL for none), or the default when the column is not
\* listed.
ColumnValue(w, e) == IF Listed(w, e) THEN DbValue(w, w.ent[e]) ELSE DefaultVal

\* An insert that records the key and the id before its statement has run,
\* and whose statement throws.
InsertStmt_RecordsFirst(w, e, t, id, fp, keyThrows) ==
    Let(StatementConnection(w, t), LAMBDA sc :
        Thr(WriteFinally(InsertDone(sc.w, e, t, id, keyThrows).w, FALSE, sc.c, t)))

\* Store.prototype.insert, from "execute insert" on (store.js:458-501).
InsertStmt(w, e, t, id, fp, keyThrows) ==
    Let(StatementConnection(w, t), LAMBDA sc :
        IF fp = "i.prepare" THEN Thr(WriteFinally(sc.w, FALSE, sc.c, t))
        ELSE
    Let(OpenStatement(sc.w), LAMBDA w2 :
        IF fp = "i.bind" THEN Thr(WriteFinally(w2, TRUE, sc.c, t))
        ELSE
    Let(LogStmt(w2, "INSERT", sc.c, e), LAMBDA w3 :
        IF fp = "i.exec" THEN Thr(WriteFinally(w3, TRUE, sc.c, t))
        ELSE
    Let(ExecInsert(w3, sc.c, [id |-> id, val |-> ColumnValue(w3, e)]), LAMBDA x :
        IF x.thr THEN Thr(WriteFinally(x.w, TRUE, sc.c, t))
        ELSE
    Let(InsertDone(x.w, e, t, id, keyThrows), LAMBDA y :
        IF y.thr THEN Thr(WriteFinally(y.w, TRUE, sc.c, t))
        ELSE Ok(WriteFinally(y.w, TRUE, sc.c, t), x.ret))))))

\* Store.prototype.insert, up to "var nextId = this.generateId(...)"
\* (store.js:419-433).
InsertId(w, fp) ==
    Bind(GetEntityMapping(w, Type), LAMBDA m :
    Bind(DialectGet(m.w, fp), LAMBDA d : GenerateId(d.w, fp)))

\* Store.prototype.insert
Insert(w, e, t, fp, keyThrows) ==
    Bind(InsertId(w, fp), LAMBDA g :
        InsertStmt(g.w, e, t, g.ret, fp, keyThrows))

\* Store.prototype.update
Update(w, e, t, fp) ==
    Bind(GetEntityMapping(w, Type), LAMBDA m :
    Bind(DialectGet(m.w, fp), LAMBDA d :
    Let(StatementConnection(d.w, t), LAMBDA sc :
        IF fp = "u.prepare" THEN Thr(WriteFinally(sc.w, FALSE, sc.c, t))
        ELSE
    Let(OpenStatement(sc.w), LAMBDA w2 :
        IF fp = "u.bind" THEN Thr(WriteFinally(w2, TRUE, sc.c, t))
        ELSE
    Let(LogStmt(w2, "UPDATE", sc.c, e), LAMBDA w3 :
        IF fp = "u.exec" THEN Thr(WriteFinally(w3, TRUE, sc.c, t))
        ELSE
    Let(ExecUpdate(w3, sc.c, w3.key[e], DbValue(w3, w3.ent[e])), LAMBDA x :
        IF x.thr THEN Thr(WriteFinally(x.w, TRUE, sc.c, t))
        ELSE Ok(WriteFinally(UpdateDone(x.w, e, t), TRUE, sc.c, t), x.ret)))))))

\* Store.prototype.remove, of the key of entity e
Remove(w, e, t, fp) ==
    Bind(GetEntityMapping(w, Type), LAMBDA m :
    Bind(DialectGet(m.w, fp), LAMBDA d :
    Let(StatementConnection(d.w, t), LAMBDA sc :
        IF fp = "r.prepare" THEN Thr(WriteFinally(sc.w, FALSE, sc.c, t))
        ELSE
    Let(OpenStatement(sc.w), LAMBDA w2 :
        IF fp = "r.bind" THEN Thr(WriteFinally(w2, TRUE, sc.c, t))
        ELSE
    Let(LogStmt(w2, "DELETE", sc.c, e), LAMBDA w3 :
        IF fp = "r.exec" THEN Thr(WriteFinally(w3, TRUE, sc.c, t))
        ELSE
    Let(ExecDelete(w3, sc.c, w3.key[e]), LAMBDA x :
        IF x.thr THEN Thr(WriteFinally(x.w, TRUE, sc.c, t))
        ELSE Ok(WriteFinally(RemoveDone(x.w, e, t), TRUE, sc.c, t), x.ret)))))))

RECURSIVE Save(_, _, _, _, _)

\* updateEntity: the value stored in the entity for property value v.
Substituted(v) ==
    IF v.k = "ref" THEN [v EXCEPT !.k = "key"]
    ELSE IF v.k = "arr" THEN [v EXCEPT !.k = "arrk"]
    ELSE v

\* Store.prototype.updateEntity: the storables among the property values are
\* saved (Storable.save(), without a transaction) and replaced by their keys.
UpdateEntity(w, e, fp, keyThrows) ==
    Bind(IF w.props[e].k \in {"ref", "arr"}
         THEN Save(w, w.props[e].r, NoTxn, fp, keyThrows)
         ELSE Ok(w, Null),
         LAMBDA s : Ok([s.w EXCEPT !.ent[e] = Substituted(w.props[e])], TRUE))

\* A save that updates the transient and inserts the persistent.
SaveUpdates_Swapped(w, e) == ~IsPersistent(w, e)

\* save: update or insert?
SaveUpdates(w, e) == IsPersistent(w, e)

\* Store.prototype.save
Save(w, e, t, fp, keyThrows) ==
    Bind(UpdateEntity(w, e, fp, keyThrows), LAMBDA u :
        IF SaveUpdates(u.w, e)
        THEN Update(u.w, e, t, fp)
        ELSE Insert(u.w, e, t, fp, keyThrows))

\* A loadEntity that takes the first row when there are several.
LoadEntity_First(w, id, fp) ==
    Bind(GetEntityMapping(w, Type), LAMBDA m :
    Bind(DialectGet(m.w, fp), LAMBDA d :
    Bind(Query(d.w, "SELECT *", id, fp), LAMBDA q :
        IF q.ret = {} THEN Ok(q.w, {}) ELSE Ok(q.w, {CHOOSE x \in q.ret : TRUE}))))

\* Store.prototype.loadEntity: ret is the set holding the one row found, or
\* the empty set (null).
LoadEntity(w, id, fp) ==
    Bind(GetEntityMapping(w, Type), LAMBDA m :
    Bind(DialectGet(m.w, fp), LAMBDA d :
    Bind(Query(d.w, "SELECT *", id, fp), LAMBDA q :
        IF Cardinality(q.ret) > 1 THEN Thr(q.w) ELSE Ok(q.w, q.ret))))

\* Store.prototype.isEntityExisting
IsEntityExisting(w, id, fp) ==
    Bind(GetEntityMapping(w, Type), LAMBDA m :
    Bind(DialectGet(m.w, fp), LAMBDA d :
    Bind(Query(d.w, "SELECT id", id, fp), LAMBDA q :
        IF Cardinality(q.ret) > 1 THEN Thr(q.w) ELSE Ok(q.w, Cardinality(q.ret) = 1))))

\* A factory that loads the row.
GetById_Eager(w, id, fp) ==
    Bind(LoadEntity(w, id, fp), LAMBDA r :
        IF r.ret # {} THEN Create(r.w, Type, id) ELSE Ok(r.w, Null))

\* getById, the get(id) of an entity constructor; ret is the id of the key
\* the instance is bound to, or null.
GetById(w, id, fp) ==
    Bind(IsEntityExisting(w, id, fp), LAMBDA r :
        IF r.ret = TRUE THEN Create(r.w, Type, id) ELSE Ok(r.w, Null))

\* --------------------------------------------------------------- Transaction
NoTransaction == [state |-> "none", conn |-> Null, inserted |-> <<>>, updated |-> <<>>,
                  deleted |-> <<>>]

\* store.createTransaction(): the transaction holds one connection of the pool
\* while it is open.
NewTransaction(w, t) ==
    [Checkout(w, GetConnection(w))
        EXCEPT !.txn[t] = [NoTransaction EXCEPT !.state = "open", !.conn = GetConnection(w)]]

\* Transaction.commit(): commits and gives the connection back.
TxnCommit(w, t) ==
    [CloseConnection(CommitConn(w, w.txn[t].conn), w.txn[t].conn)
        EXCEPT !.txn[t].state = "closed"]

\* Transaction.rollback()
TxnRollback(w, t) ==
    [CloseConnection(RollbackConn(w, w.txn[t].conn), w.txn[t].conn)
        EXCEPT !.txn[t].state = "closed"]

\* ------------------------------------------------------------------- actions
OutConns == {c \in Conns : conns[c].out}

\* The transactions a call can be given: none, or one that is open.
TxnArgs == {NoTxn} \cup {t \in Txns : txn[t].state = "open"}

\* What the setter of Key.id does with a second assignment matters to an
\* insert of an entity whose key is persistent.
KeyChoices(e) == IF key[e] # Null THEN BOOLEAN ELSE {TRUE}

QueryFails == {"q.create", "q.exec", "q.read"}
GenIdFails == {"g.create", "g.exec", "g.read"}
InsertFails == GenIdFails \cup {"i.prepare", "i.bind", "i.exec"}
UpdateFails == {"u.prepare", "u.bind", "u.exec"}
RemoveFails == {"r.prepare", "r.bind", "r.exec"}
\* save fails where its statements are executed (the other failures of insert
\* and update are those of CallInsert and CallUpdate).
SaveFails == {"g.exec", "i.exec", "u.exec"}

\* The JDBC calls that can throw during a call: those of Fs, and the metadata
\* read while the dialect is not determined yet.
Fails(Fs) == {"none"} \cup Fs \cup (IF dialect = "null" THEN {"dd.meta"} ELSE {})

IntOps == {"generateId", "insert", "update", "remove", "save", "create", "getById"}
RowOps == {"query", "loadEntity"}
BoolOps == {"isEntityExisting", "tableExists"}

\* A dialect, as a number.
DialectCode(d) == IF d = "h2" THEN 1 ELSE IF d = "mysql5" THEN 2 ELSE 0

\* A mapping, as a number.
MappingCode(m) ==
    (IF m.hasIdSequence THEN 1 ELSE 0) + (IF m.unique THEN 2 ELSE 0)
    + (IF m.renamed THEN 4 ELSE 0) + (IF m.default THEN 8 ELSE 0)

\* What a call returned: a number (the id, the rows affected; 1 for true; the
\* mapping of the registration; the number of tables), and the rows of a query.
RetOf(op, r) ==
    IF r.thr THEN 0
    ELSE IF op \in IntOps THEN r.ret
    ELSE IF op \in BoolOps THEN (IF r.ret THEN 1 ELSE 0)
    ELSE IF op = "defineEntity" THEN MappingCode(r.ret)
    ELSE IF op = "getTables" THEN Cardinality(r.ret)
    ELSE IF op = "dialect" THEN DialectCode(r.ret)
    ELSE 0
FoundOf(op, r) == IF ~r.thr /\ op \in RowOps THEN r.ret ELSE {}

NoCall == [op |-> "none", e |-> NoEnt, t |-> NoTxn, id |-> Null, thr |-> FALSE, ret |-> 0,
           found |-> {}, acq |-> 0, closes |-> 0, log |-> <<>>, out0 |-> {}, nd |-> FALSE]

\* The world a handler leaves becomes the state.
Leaves(w) ==
    /\ registry' = w.registry
    /\ mapping' = w.mapping
    /\ tables' = w.tables
    /\ sequences' = w.sequences
    /\ dialect' = w.dialect
    /\ conns' = w.conns
    /\ rows' = w.rows
    /\ pend' = w.pend
    /\ seq' = w.seq
    /\ stmts' = w.stmts
    /\ cursors' = w.cursors
    /\ txn' = w.txn
    /\ key' = w.key
    /\ props' = w.props
    /\ ent' = w.ent
    /\ idLog' = w.idLog
    /\ inserts' = w.inserts
    /\ UNCHANGED <<product, version>>

\* The call op(e, t, id) ends with r; call records it: whether it threw, what
\* it returned, the connections it acquired, the statements it executed, the
\* connections that were checked out before it and whether the dialect was
\* still to be determined.
Returns(r, op, e, t, id) ==
    /\ Leaves(r.w)
    /\ call' = [op |-> op, e |-> e, t |-> t, id |-> id, thr |-> r.thr,
                ret |-> RetOf(op, r), found |-> FoundOf(op, r), acq |-> r.w.acq,
                closes |-> r.w.closes,
                log |-> r.w.log, out0 |-> OutConns, nd |-> (dialect = "null")]
    /\ left' = left - 1

\* A caller can make a call when the pool has the connections it needs.
CanCall == left > 0 /\ Cardinality(Conns \ OutConns) >= 2

Single == UNCHANGED <<pc, nextId, getter>>

CallDetermineDialect ==
    \E fp \in Fails({}) :
        /\ CanCall
        /\ Returns(DetermineDialect(World, fp), "determineDialect", NoEnt, NoTxn, Null)
        /\ Single

CallQuery ==
    \E fp \in Fails(QueryFails) :
        /\ CanCall
        /\ Returns(Query(World, "SELECT", Null, fp), "query", NoEnt, NoTxn, Null)
        /\ Single

CallGenerateId ==
    \E fp \in Fails(GenIdFails) :
        /\ CanCall
        /\ Returns(GenerateId(World, fp), "generateId", NoEnt, NoTxn, Null)
        /\ Single

CallInsert(e, t) ==
    \E fp \in Fails(InsertFails), kt \in KeyChoices(e) :
        /\ CanCall
        /\ Returns(Insert(World, e, t, fp, kt), "insert", e, t, Null)
        /\ Single

CallUpdate(e, t) ==
    \E fp \in Fails(UpdateFails) :
        /\ CanCall
        /\ Returns(Update(World, e, t, fp), "update", e, t, Null)
        /\ Single

CallRemove(e, t) ==
    \E fp \in Fails(RemoveFails) :
        /\ CanCall
        /\ Returns(Remove(World, e, t, fp), "remove", e, t, Null)
        /\ Single

\* The caller sets the storable's property to p and saves it.
CallSave(e, t) ==
    \E p \in PropVals(e), fp \in Fails(SaveFails) :
        /\ CanCall
        /\ Returns(Save([World EXCEPT !.props[e] = p], e, t, fp, TRUE),
                   "save", e, t, Null)
        /\ Single

CallLoadEntity(id) ==
    \E fp \in Fails(QueryFails) :
        /\ CanCall
        /\ Returns(LoadEntity(World, id, fp), "loadEntity", NoEnt, NoTxn, id)
        /\ Single

CallIsEntityExisting(id) ==
    \E fp \in Fails(QueryFails) :
        /\ CanCall
        /\ Returns(IsEntityExisting(World, id, fp), "isEntityExisting", NoEnt, NoTxn, id)
        /\ Single

CreateTransaction(t) ==
    /\ CanCall
    /\ txn[t].state # "open"
    /\ Returns(Ok(NewTransaction(World, t), Null), "createTransaction", NoEnt, t, Null)
    /\ Single

Commit(t) ==
    /\ left > 0
    /\ txn[t].state = "open"
    /\ Returns(Ok(TxnCommit(World, t), Null), "commit", NoEnt, t, Null)
    /\ Single

Rollback(t) ==
    /\ left > 0
    /\ txn[t].state = "open"
    /\ Returns(Ok(TxnRollback(World, t), Null), "rollback", NoEnt, t, Null)
    /\ Single

Ids == 1..MaxOps

DefineFails == {"gt.meta", "gt.read", "gc.read", "pk.read", "ct.create", "ct.exec",
                "cs.create", "cs.exec"}
PTypes == {"integer", "unknown", "none"}

\* defineEntity(Type, m); call.id is the mapping handed over.  A JDBC call is
\* made to fail when the mapping's types are in order.
CallDefineEntity ==
    \E m \in PlainMappings, ptype \in PTypes, fp \in Fails(DefineFails), strict \in BOOLEAN :
        /\ CanCall
        /\ ptype = "integer" \/ fp = "none"
        /\ Returns(DefineEntity(World, Type, m, ptype, fp, strict),
                   "defineEntity", NoEnt, NoTxn, MappingCode(m))
        /\ Single

CallCreate(id) ==
    /\ CanCall
    /\ Returns(Create(World, Type, id), "create", NoEnt, NoTxn, id)
    /\ Single

\* The connection a caller of a schema utility takes from the pool, and the
\* world once it has it; call.id is the connection handed over.
Handed == GetConnection(World)
Taken == Checkout(World, Handed)

CallCreateTable ==
    \E typeKnown \in BOOLEAN, fp \in {"none", "ct.create", "ct.exec"} :
        /\ CanCall
        /\ Returns(UtilCreateTable(Taken, Handed, typeKnown, fp, TRUE),
                   "createTable", NoEnt, NoTxn, Handed)
        /\ Single

CallCreateSequence ==
    \E fp \in {"none", "cs.create", "cs.exec"} :
        /\ CanCall
        /\ Returns(CreateSequence(Taken, Handed, fp, TRUE),
                   "createSequence", NoEnt, NoTxn, Handed)
        /\ Single

GetTablesFails == {"gt.meta", "gt.read", "gc.meta", "gc.read", "pk.meta", "pk.read"}

CallGetTables ==
    \E fp \in {"none"} \cup GetTablesFails :
        /\ CanCall
        /\ Returns(GetTables(Taken, Handed, fp, TRUE), "getTables", NoEnt, NoTxn, Handed)
        /\ Single

CallTableExists ==
    \E fp \in {"none"} \cup GetTablesFails :
        /\ CanCall
        /\ Returns(TableExists(Taken, Handed, TableName, fp, TRUE),
                   "tableExists", NoEnt, NoTxn, Handed)
        /\ Single

CallDropTable ==
    \E fp \in {"none", "d.create", "d.exec"} :
        /\ CanCall
        /\ Returns(DropTable(Taken, Handed, fp, TRUE), "dropTable", NoEnt, NoTxn, Handed)
        /\ Single

CallDropSequence ==
    \E fp \in {"none", "d.create", "d.exec"} :
        /\ CanCall
        /\ Returns(DropSequence(Taken, Handed, fp, TRUE),
                   "dropSequence", NoEnt, NoTxn, Handed)
        /\ Single


\* A caller that is not inside the getter of dialect.
NoGetter == [conn |-> Null, result |-> "null", log |-> <<>>]

\* The state after new Store(props, maxConnections): the pool's connections
\* are free, nothing is cached, no call has been made.
Constructed ==
    /\ dialect = "null"
    /\ conns = [c \in Conns |-> [out |-> FALSE, ac |-> TRUE, ro |-> FALSE, iso |-> "rc"]]
    /\ pend = [c \in Conns |-> NoPending]
    /\ seq = 1
    /\ stmts = 0
    /\ cursors = 0
    /\ txn = [t \in PoolTxns |-> NoTransaction]
    /\ key = [e \in Ents |-> Null]
    /\ props = [e \in Ents |-> IntVal(1)]
    /\ ent = [e \in Ents |-> IntVal(Null)]
    /\ call = NoCall
    /\ pc = [p \in Callers |-> "idle"]
    /\ nextId = [p \in Callers |-> Null]
    /\ getter = [p \in Callers |-> NoGetter]
    /\ idLog = <<>>
    /\ inserts = 0

\* The type has been defined, on a database that has its table and sequence.
Defined ==
    /\ registry = {Type}
    /\ tables = {TableName}
    /\ sequences = {SequenceName}

\* The state after new Store(props, maxConnections) and defineEntity(type,
\* mapping) on a supported database that has the (empty) table and the sequence.
Start ==
    /\ product \in {"H2", "MySQL"}
    /\ version = MySQLVersion
    /\ mapping \in PlainMappings
    /\ Defined
    /\ rows = {}
    /\ Constructed

Init == Start /\ left = MaxOps

Next ==
    \/ CallDetermineDialect
    \/ CallQuery
    \/ CallGenerateId
    \/ \E e \in Ents, t \in TxnArgs : CallInsert(e, t)
    \/ \E e \in Ents, t \in TxnArgs : CallUpdate(e, t)
    \/ \E e \in Ents, t \in TxnArgs : CallRemove(e, t)
    \/ \E e \in Ents, t \in TxnArgs : CallSave(e, t)
    \/ \E id \in Ids : CallLoadEntity(id)
    \/ \E id \in Ids : CallIsEntityExisting(id)
    \/ \E t \in Txns : CreateTransaction(t)
    \/ \E t \in Txns : Commit(t)
    \/ \E t \in Txns : Rollback(t)

Spec == Init /\ [][Next]_vars

\* Longer runs of one caller's writes to one entity, with and without a
\* transaction.
InitLong == Start /\ left = MaxLong

NextLong ==
    \/ CallGenerateId
    \/ \E t \in TxnArgs : CallInsert("b", t)
    \/ \E t \in TxnArgs : CallUpdate("b", t)
    \/ \E t \in TxnArgs : CallRemove("b", t)
    \/ \E t \in TxnArgs : CallSave("b", t)
    \/ \E t \in Txns : CreateTransaction(t)
    \/ \E t \in Txns : Commit(t)
    \/ \E t \in Txns : Rollback(t)

SpecLong == InitLong /\ [][NextLong]_vars

\* Concurrent callers.  Caller p inserts its entity in two steps, the
\* statement of generateId and the INSERT statement; the steps of the callers
\* interleave.  A caller can also call generateId on its own.
EntOf(p) == IF p = 1 THEN "a" ELSE "b"

\* insert, up to and including generateId.
InsertGetsId(p) ==
    \E fp \in Fails(GenIdFails) :
        /\ CanCall
        /\ pc[p] = "idle"
        /\ Returns(InsertId(World, fp), "generateId", EntOf(p), NoTxn, Null)
        /\ pc' = [pc EXCEPT ![p] = IF InsertId(World, fp).thr THEN "idle" ELSE "insert"]
        /\ nextId' = [nextId EXCEPT ![p] = RetOf("generateId", InsertId(World, fp))]
        /\ UNCHANGED getter

\* insert, from "execute insert" on.
InsertExecutes(p) ==
    \E fp \in {"none", "i.prepare", "i.bind", "i.exec"}, kt \in KeyChoices(EntOf(p)) :
        /\ CanCall
        /\ pc[p] = "insert"
        /\ Returns(InsertStmt(World, EntOf(p), NoTxn, nextId[p], fp, kt),
                   "insert", EntOf(p), NoTxn, nextId[p])
        /\ pc' = [pc EXCEPT ![p] = "idle"]
        /\ nextId' = [nextId EXCEPT ![p] = Null]
        /\ UNCHANGED getter

InitConc == Start /\ left = MaxConc

NextConc ==
    \/ \E p \in Callers : InsertGetsId(p)
    \/ \E p \in Callers : InsertExecutes(p)
    \/ CallGenerateId

SpecConc == InitConc /\ [][NextConc]_vars

\* ------------------------------------------------- concurrent reads of dialect

\* The read of dialect by caller p ends with r; call records it: call.id is
\* the caller, call.nd whether the read went through determineDialect,
\* call.out0 the connection it used.
ReadEnds(p, r, determined, c) ==
    /\ Leaves(r.w)
    /\ call' = [op |-> "dialect", e |-> NoEnt, t |-> NoTxn, id |-> p, thr |-> r.thr,
                ret |-> RetOf("dialect", r), found |-> {},
                acq |-> (IF determined THEN 1 ELSE 0),
                closes |-> (IF determined THEN 1 ELSE 0), log |-> r.w.log,
                out0 |-> (IF determined THEN {c} ELSE {}), nd |-> determined]
    /\ left' = left - 1
    /\ pc' = [pc EXCEPT ![p] = "idle"]
    /\ getter' = [getter EXCEPT ![p] = NoGetter]
    /\ UNCHANGED nextId

\* The callers inside the getter.
Reading == {q \in Callers : pc[q] # "idle"}

\* The getter finds the dialect cached and returns it.
DialectCached(p) ==
    /\ left > Cardinality(Reading)
    /\ pc[p] = "idle"
    /\ dialect # "null"
    /\ ReadEnds(p, Ok(World, dialect), FALSE, Null)

\* The getter finds dialect === null.
DialectMissing(p) ==
    /\ left > Cardinality(Reading)
    /\ pc[p] = "idle"
    /\ dialect = "null"
    /\ pc' = [pc EXCEPT ![p] = "connect"]
    /\ UNCHANGED <<product, version, registry, mapping, tables, sequences, dialect, conns,
                   rows, pend, seq, stmts, cursors, txn, key, props, ent, call, left,
                   nextId, getter, idLog, inserts>>

\* determineDialect: var conn = this.getConnection(), which waits for a free
\* connection.
DialectConnect(p) ==
    /\ pc[p] = "connect"
    /\ FreeConns(World) # {}
    /\ Leaves(Checkout(World, GetConnection(World)))
    /\ getter' = [getter EXCEPT ![p] = [NoGetter EXCEPT !.conn = GetConnection(World)]]
    /\ pc' = [pc EXCEPT ![p] = "meta"]
    /\ UNCHANGED <<call, left, nextId>>

\* determineDialect: try ... finally; it throws, or returns to the getter.
DialectMeta(p) ==
    \E fp \in {"none", "dd.meta"} :
        /\ pc[p] = "meta"
        /\ IF ReadMetaData(World, getter[p].conn, fp).thr
           THEN ReadEnds(p, ReadMetaData(World, getter[p].conn, fp), TRUE, getter[p].conn)
           ELSE /\ Leaves(ReadMetaData(World, getter[p].conn, fp).w)
                /\ getter' = [getter EXCEPT
                                 ![p].result = ReadMetaData(World, getter[p].conn, fp).ret,
                                 ![p].log = ReadMetaData(World, getter[p].conn, fp).w.log]
                /\ pc' = [pc EXCEPT ![p] = "assign"]
                /\ UNCHANGED <<call, left, nextId>>

\* The getter: dialect = the result of determineDialect; return dialect.
DialectAssign(p) ==
    /\ pc[p] = "assign"
    /\ ReadEnds(p, Ok([World EXCEPT !.dialect = getter[p].result, !.log = getter[p].log],
                      getter[p].result),
                TRUE, getter[p].conn)

Products == {"H2", "MySQL", "PostgreSQL"}
Versions == {MySQLVersion - 1, MySQLVersion}

\* A new store on any database.
InitDial ==
    /\ product \in Products
    /\ version \in Versions
    /\ mapping \in PlainMappings
    /\ Defined
    /\ rows = {}
    /\ Constructed
    /\ left = MaxReads

NextDial ==
    \/ \E p \in Callers : DialectCached(p)
    \/ \E p \in Callers : DialectMissing(p)
    \/ \E p \in Callers : DialectConnect(p)
    \/ \E p \in Callers : DialectMeta(p)
    \/ \E p \in Callers : DialectAssign(p)

SpecDial == InitDial /\ [][NextDial]_vars

\* ----------------------------------------------------------------- reading

CallGetById(id) ==
    \E fp \in Fails(QueryFails) :
        /\ CanCall
        /\ Returns(GetById(World, id, fp), "getById", NoEnt, NoTxn, id)
        /\ Single

\* query of a table with a column whose JDBC type the dialect does not know;
\* call.e says so.
CallQueryUnknownType ==
    /\ CanCall
    /\ Returns(Query(World, "SELECT", Null, "q.type"), "query", "unknown type", NoTxn, Null)
    /\ Single

\* The contents a table can have under the primary key of the mapping m, up
\* to MaxRows rows.
RowSpace == [id : Ids, val : Vals]
Contents(m) ==
    {R \in SUBSET RowSpace :
        /\ Cardinality(R) <= MaxRows
        /\ \A x, y \in R : (x.id = y.id /\ (m.unique => x.val = y.val)) => x = y}

\* The type is defined and its table has rows.
InitRead ==
    /\ product \in {"H2", "MySQL"}
    /\ version = MySQLVersion
    /\ mapping \in PlainMappings
    /\ Defined
    /\ rows \in Contents(mapping)
    /\ Constructed
    /\ left = MaxLoads

NextRead ==
    \/ \E id \in Ids : CallLoadEntity(id)
    \/ \E id \in Ids : CallIsEntityExisting(id)
    \/ \E id \in Ids : CallGetById(id)
    \/ CallQuery
    \/ CallQueryUnknownType

SpecRead == InitRead /\ [][NextRead]_vars

\* ------------------------------------------------------ the columns of INSERT

\* The type is defined with any mapping.
InitCols ==
    /\ product \in {"H2", "MySQL"}
    /\ version = MySQLVersion
    /\ mapping \in Mappings
    /\ Defined
    /\ rows = {}
    /\ Constructed
    /\ left = MaxOps

NextCols ==
    \/ \E e \in Ents : CallInsert(e, NoTxn)
    \/ \E e \in Ents : CallSave(e, NoTxn)

SpecCols == InitCols /\ [][NextCols]_vars

\* ------------------------------------------- transactions on a bounded pool

\* The transaction the caller p works in.
TxnOf(p) == TxnNames[p]

\* store.createTransaction(), which waits for a free connection.
BeginTransaction(t) ==
    /\ txn[t].state = "none"
    /\ FreeConns(World) # {}
    /\ Leaves(NewTransaction(World, t))
    /\ UNCHANGED <<call, left, pc, nextId, getter>>

\* Transaction.commit() by a caller that is not inside insert.
EndTransaction(t) ==
    /\ txn[t].state = "open"
    /\ \A p \in Callers : TxnOf(p) = t => pc[p] = "idle"
    /\ Leaves(TxnCommit(World, t))
    /\ UNCHANGED <<call, left, pc, nextId, getter>>

\* The caller p calls insert(entity, transaction) with its open transaction.
TxnInsertCalled(p) ==
    /\ left > 0
    /\ pc[p] = "idle"
    /\ txn[TxnOf(p)].state = "open"
    /\ pc' = [pc EXCEPT ![p] = "called"]
    /\ left' = left - 1
    /\ UNCHANGED <<product, version, registry, mapping, tables, sequences, dialect, conns,
                   rows, pend, seq, stmts, cursors, txn, key, props, ent, call,
                   nextId, getter, idLog, inserts>>

\* insert up to and including generateId, whose getConnection() (and that of
\* determineDialect) waits for a free connection of the pool.
TxnInsertGetsId(p) ==
    /\ pc[p] = "called"
    /\ FreeConns(World) # {}
    /\ Leaves(InsertId(World, "none").w)
    /\ pc' = [pc EXCEPT ![p] = IF InsertId(World, "none").thr THEN "idle" ELSE "insert"]
    /\ nextId' = [nextId EXCEPT ![p] = RetOf("generateId", InsertId(World, "none"))]
    /\ UNCHANGED <<call, left, getter>>

\* insert from "execute insert" on, on the connection of the transaction.
TxnInsertExecutes(p) ==
    /\ pc[p] = "insert"
    /\ Leaves(InsertStmt(World, EntOf(p), TxnOf(p), nextId[p], "none", TRUE).w)
    /\ pc' = [pc EXCEPT ![p] = "idle"]
    /\ nextId' = [nextId EXCEPT ![p] = Null]
    /\ UNCHANGED <<call, left, getter>>

InitPool == Start /\ left = MaxConc

NextPool ==
    \/ \E t \in PoolTxns : BeginTransaction(t)
    \/ \E t \in PoolTxns : EndTransaction(t)
    \/ \E p \in Callers : TxnInsertCalled(p)
    \/ \E p \in Callers : TxnInsertGetsId(p)
    \/ \E p \in Callers : TxnInsertExecutes(p)

\* The steps of TxnInsertGetsId(p) and of TxnInsertExecutes(p), by what they
\* do to pc: they are the only steps that take p from "called", and from
\* "insert".
GetsIdStep(p) ==
    /\ pc[p] = "called"
    /\ FreeConns(World) # {}
    /\ pc' \in {[pc EXCEPT ![p] = "idle"], [pc EXCEPT ![p] = "insert"]}
ExecutesStep(p) ==
    /\ pc[p] = "insert"
    /\ pc' = [pc EXCEPT ![p] = "idle"]

\* A caller inside insert goes on when it can; nobody has to open or close a
\* transaction.
FairPool ==
    \A p \in Callers : WF_pc(GetsIdStep(p)) /\ WF_pc(ExecutesStep(p))

SpecPool == InitPool /\ [][NextPool]_vars /\ FairPool

\* -------------------------------------------- registration and schema utilities

\* ---------------------------------------------------------------------------
\* A single writer: one caller inserts and removes entities of one type
\* without a transaction.

InitSingle == Start /\ left = MaxLong

NextSingle ==
    \/ \E e \in Ents : CallInsert(e, NoTxn)
    \/ \E e \in Ents : CallRemove(e, NoTxn)

SpecSingle == InitSingle /\ [][NextSingle]_vars

\* ---------------------------------------------------------------------------
\* Reuse of pooled connections: queries, transactions, writes without a
\* transaction and the schema utilities take turns on the connections of the
\* pool, each finding a connection in the mode its last user left it in.

MaxModeOps == 4

InitModes == Start /\ left = MaxModeOps

NextModes ==
    \/ CallQuery
    \/ \E t \in Txns : CreateTransaction(t)
    \/ \E t \in Txns : Commit(t)
    \/ \E t \in Txns : Rollback(t)
    \/ \E t \in TxnArgs : CallInsert("a", t)
    \/ \E t \in TxnArgs : CallUpdate("a", t)
    \/ \E t \in TxnArgs : CallRemove("a", t)
    \/ CallCreateTable
    \/ CallCreateSequence
    \/ CallDropTable
    \/ CallDropSequence

SpecModes == InitModes /\ [][NextModes]_vars

\* A new store: nothing is registered, and the database has the table and the
\* sequence of the type, or not.
InitSchema ==
    /\ product \in {"H2", "MySQL"}
    /\ version = MySQLVersion
    /\ registry = {}
    /\ mapping = NoMapping
    /\ tables \in SUBSET {TableName}
    /\ sequences \in SUBSET {SequenceName}
    /\ rows = {}
    /\ Constructed
    /\ left = MaxSchema

NextSchema ==
    \/ CallDefineEntity
    \/ CallCreateTable
    \/ CallCreateSequence
    \/ CallGetTables
    \/ CallTableExists
    \/ CallDropTable
    \/ CallDropSequence
    \/ CallCreate(1)
    \/ CallGenerateId
    \/ CallLoadEntity(1)
    \/ CallIsEntityExisting(1)
    \/ \E t \in TxnArgs : CallInsert("b", t) \/ CallUpdate("b", t) \/ CallRemove("b", t)
    \/ \E t \in Txns : CreateTransaction(t)

SpecSchema == InitSchema /\ [][NextSchema]_vars

\* -------------------------------------------------------------- properties
OutOfBand == {"createTransaction", "commit", "rollback", "none"}

\* C1: when a call made without a transaction throws, every statement and
\* result set it opened is closed and the connections checked out of the pool
\* are those that were checked out before the call.
C1_CleanupOnFailure ==
    (call.thr /\ call.t = NoTxn /\ call.op \notin OutOfBand)
        => (stmts = 0 /\ cursors = 0 /\ OutConns = call.out0)

\* A query that failed reading its result set, having opened a connection, a
\* statement and a result set, while a transaction holds another connection.
C1_Witness ==
    /\ call.thr /\ call.t = NoTxn /\ call.op \in {"query", "loadEntity"}
    /\ call.acq >= 1 /\ Len(call.log) >= 1 /\ call.out0 # {}
    /\ stmts = 0 /\ cursors = 0 /\ OutConns = call.out0

PoolOps == {"insert", "update", "remove", "query", "generateId", "loadEntity",
            "isEntityExisting"}

Budget(op) == IF op = "insert" THEN 2 ELSE 1
\* The call was the one to determine the dialect, on a connection of its own.
Determined == call.nd /\ dialect # "null"

C3_TxnConnectionReuse ==
    (call.op \in {"insert", "update", "remove"} /\ call.t # NoTxn) =>
        /\ call.acq = 0
        /\ \A i \in 1..Len(call.log) : call.log[i].c = txn[call.t].conn
        /\ conns[txn[call.t].conn].out
        /\ ~conns[txn[call.t].conn].ac
        /\ conns[txn[call.t].conn].iso = "ser"

\* C4: a call of insert, update, remove or save on a transaction that is open
\* and stays open changes no committed row, and insert, update and remove
\* append the entity's key to the transaction's accumulator.
C4_TxnIsolation ==
    [][(call'.t # NoTxn /\ ~call'.thr /\ call'.op \in {"insert", "update", "remove", "save"})
        => /\ rows' = rows
           /\ call'.op = "insert"
                => txn'[call'.t].inserted = Append(txn[call'.t].inserted, call'.e)
           /\ call'.op = "update"
                => txn'[call'.t].updated = Append(txn[call'.t].updated, call'.e)
           /\ call'.op = "remove"
                => txn'[call'.t].deleted = Append(txn[call'.t].deleted, call'.e)]_vars

AllInserted == rows \cup UNION {pend[c].ins : c \in Conns}

Loads(r, row) == ~r.thr /\ r.ret = {row}

\* C6: after save(e) has returned, loadEntity of e's key returns the row that
\* holds e's values.
C6_RoundTrip ==
    (call.op = "save" /\ ~call.thr /\ call.t = NoTxn)
        => Loads(LoadEntity(World, key[call.e], "none"),
                 [id |-> key[call.e], val |-> DbValue(World, ent[call.e])])

WritesOf(log, e) == SelectSeq(log, LAMBDA s : s.e = e /\ s.k \in {"INSERT", "UPDATE"})
Nested(v) == v.k \in {"ref", "arr"}

\* C7: a save that returns has executed one INSERT or UPDATE for the entity,
\* as its last statement: UPDATE if the key was persistent, else INSERT; a
\* storable among the property values has been saved by a statement before
\* that, is persistent, and its key is what the entity holds.
C7_SaveDispatch ==
    [][(call'.op = "save" /\ ~call'.thr)
        => /\ Len(WritesOf(call'.log, call'.e)) = 1
           /\ call'.log[Len(call'.log)].e = call'.e
           /\ call'.log[Len(call'.log)].k = (IF key[call'.e] # Null THEN "UPDATE" ELSE "INSERT")
           /\ ent'[call'.e] = Substituted(props'[call'.e])
           /\ Nested(props'[call'.e])
                => /\ Len(WritesOf(call'.log, props'[call'.e].r)) = 1
                   /\ key'[props'[call'.e].r] # Null]_vars

\* A save of a persistent entity holding an array with a storable: the
\* storable was inserted, then the entity updated.
C7_Witness ==
    /\ call.op = "save" /\ ~call.thr /\ props[call.e].k = "arr"
    /\ call.log[Len(call.log)].k = "UPDATE"
    /\ \E i \in 1..Len(call.log) : call.log[i].k = "INSERT" /\ call.log[i].e = "b"

\* C8: without a sequence, when every row inserted so far is still in the
\* table (committed or not), generateId returns their number plus one.
C8_FallbackId ==
    (/\ call.op = "generateId" /\ ~call.thr /\ ~UseSequence(dialect)
     /\ Cardinality(AllInserted) = inserts
     /\ \A c \in Conns : pend[c].del = {})
        => call.ret = inserts + 1

Fallback == ~(mapping.hasIdSequence /\ product = "H2")
MaxId == SetMax({x.id : x \in rows})

\* C9: without a sequence, a caller whose insert reads its id while the other
\* caller holds the id it read from the same MAX(id), its INSERT not yet
\* executed, is given the same id.
C9_SameMaxSameId ==
    [][\A p, q \in Callers :
        (/\ Fallback /\ p # q
         /\ pc[p] = "idle" /\ pc'[p] = "insert"
         /\ pc[q] = "insert" /\ nextId[q] = MaxId + 1)
            => nextId'[p] = nextId[q]]_vars

\* Both callers are about to execute their INSERT with the same id.
C9_Witness ==
    /\ Fallback
    /\ \A p \in Callers : pc[p] = "insert"
    /\ nextId[1] = nextId[2] /\ nextId[1] = MaxId + 1

\* C10: with a sequence, the ids generateId has returned are strictly
\* increasing.
C10_SequenceIdsIncrease ==
    (mapping.hasIdSequence /\ product = "H2")
        => \A i, j \in 1..Len(idLog) : i < j => idLog[i] < idLog[j]

\* An insert failed while the other caller holds an id, after generateId has
\* returned two ids or more.
C10_Witness ==
    /\ mapping.hasIdSequence /\ product = "H2"
    /\ Len(idLog) >= 2
    /\ call.op = "insert" /\ call.thr
    /\ \E p \in Callers : pc[p] = "insert"

\* C11: defineEntity of a type that is registered returns the registration the
\* first call stored, acquires no connection and issues no statement, whatever
\* mapping it is given; the registry and the database stay as they are.
C11_IdempotentRegistration ==
    [][(call'.op = "defineEntity" /\ Type \in registry) =>
          /\ ~call'.thr
          /\ call'.acq = 0
          /\ call'.log = <<>>
          /\ call'.ret = MappingCode(mapping)
          /\ UNCHANGED <<registry, mapping, tables, sequences, dialect, conns, stmts, cursors>>]_vars

\* A second defineEntity with another mapping has returned.
C11_Witness ==
    call.op = "defineEntity" /\ ~call.thr /\ call.acq = 0 /\ call.id # call.ret

\* A read of dialect has just ended.
ReadEnded == call'.op = "dialect" /\ left' < left

\* C12: once determined the dialect stays what it is, and a read that finds it
\* returns it without acquiring a connection; a read that determines it
\* acquires one connection, makes one metadata round trip on it and returns
\* what is cached from then on; racing first readers may each do so, and the
\* only connections out are those of readers inside their round trip.
C12_DialectCaching ==
    [][/\ dialect # "null" => dialect' = dialect
       /\ (ReadEnded /\ dialect # "null" /\ pc[call'.id] = "idle") =>
             /\ ~call'.thr /\ ~call'.nd
             /\ call'.acq = 0 /\ call'.log = <<>>
             /\ call'.ret = DialectCode(dialect)
             /\ conns' = conns
       /\ (ReadEnded /\ call'.nd /\ ~call'.thr) =>
             /\ call'.acq = 1
             /\ Len(call'.log) = 1 /\ call'.log[1].k = "META" /\ call'.log[1].c \in call'.out0
             /\ call'.ret = DialectCode(dialect') /\ dialect' # "null"
       /\ OutConns' = {getter'[p].conn : p \in {q \in Callers : pc'[q] = "meta"}}]_vars

\* A reader has determined and cached the dialect while another one, which
\* also found none, has made its own round trip.
C12_Witness ==
    \E p, q \in Callers :
        /\ p # q /\ pc[p] = "assign" /\ pc[q] = "idle"
        /\ call.op = "dialect" /\ call.id = q /\ call.nd /\ ~call.thr
        /\ dialect # "null" /\ OutConns = {}

Supported == product = "H2" \/ (product = "MySQL" /\ version = MySQLVersion)

\* C13: on a database that is neither H2 nor MySQL 5 every read of dialect
\* throws after determineDialect has closed its connection, nothing is cached,
\* and so the next read goes through determineDialect again.
C13_UnsupportedFailsFast ==
    [][~Supported =>
          /\ dialect' = "null"
          /\ ReadEnded =>
                /\ call'.thr /\ call'.nd /\ call'.acq = 1
                /\ \A c \in call'.out0 : ~conns'[c].out]_vars

\* The second read on MySQL 4 has made its round trip and thrown.
C13_Witness ==
    /\ product = "MySQL" /\ version # MySQLVersion
    /\ call.op = "dialect" /\ call.thr /\ Len(call.log) = 1
    /\ left = MaxReads - 2 /\ dialect = "null" /\ OutConns = {}

UtilOps == {"createTable", "createSequence", "getTables", "tableExists", "dropTable",
            "dropSequence"}

\* C14: when a schema utility has returned or thrown, the connection it was
\* handed is closed.
C14_UtilitiesClose == call.op \in UtilOps => ~conns[call.id].out

\* The rows of the table with the id of the last call.
Matching == {x \in rows : x.id = call.id}

\* C15: with no row of the id loadEntity returns null and isEntityExisting
\* false; with one row loadEntity returns that row, the key being (type, id),
\* and isEntityExisting true; with more than one row both throw.  Neither
\* throws on its own account with fewer than two rows.
C15_Cardinality ==
    /\ call.op = "loadEntity" =>
          /\ Cardinality(Matching) > 1 => call.thr
          /\ ~call.thr => call.found = Matching /\ \A x \in call.found : x.id = call.id
    /\ call.op = "isEntityExisting" =>
          /\ Cardinality(Matching) > 1 => call.thr
          /\ ~call.thr => call.ret = Cardinality(Matching)
    /\ \A id \in Ids :
          Cardinality({x \in rows : x.id = id}) <= 1 =>
              /\ ~LoadEntity(World, id, "none").thr
              /\ ~IsEntityExisting(World, id, "none").thr

\* loadEntity has thrown for an id that two rows have, in a table where
\* another id has one row.
C15_Witness ==
    /\ call.op = "loadEntity" /\ call.thr /\ Cardinality(Matching) = 2
    /\ \E id \in Ids : Cardinality({x \in rows : x.id = id}) = 1
    /\ Len(call.log) >= 1 /\ call.log[Len(call.log)].k = "SELECT *"

\* The statements of kind k among those the last call executed.
Issued(k) == {i \in 1..Len(call.log) : call.log[i].k = k}

\* C17: get(id) issues no full-row query and at most one existence query,
\* exactly one when it returns; it returns null when no row has the id and
\* otherwise an instance whose key has the id.
C17_LazyConstruction ==
    call.op = "getById" =>
        /\ Issued("SELECT *") = {}
        /\ Cardinality(Issued("SELECT id")) <= 1
        /\ ~call.thr =>
              /\ Cardinality(Issued("SELECT id")) = 1
              /\ call.ret = (IF Matching = {} THEN Null ELSE call.id)

\* get(id) has returned an instance.
C17_Witness ==
    call.op = "getById" /\ ~call.thr /\ call.ret = call.id /\ Matching # {}

\* C19: the statement of query runs on a connection that is read-only; when
\* the dialect does not know a column's type query returns nothing but an
\* empty result, and throws when there is a row; result set, statement and
\* connection are closed.
C19_QueryReadOnly ==
    call.op = "query" =>
        /\ \A i \in Issued("SELECT") : call.log[i].ro
        /\ call.e = "unknown type" =>
              /\ call.found = {}
              /\ rows # {} => call.thr
              /\ stmts = 0 /\ cursors = 0 /\ OutConns = {}

\* query has thrown on a row with a column of unknown type.
C19_Witness ==
    /\ call.op = "query" /\ call.e = "unknown type" /\ call.thr /\ rows # {}
    /\ Issued("SELECT") # {}

StoreOps == {"insert", "update", "remove", "generateId", "loadEntity", "isEntityExisting",
             "create"}

\* C16: a call of insert, update, remove, generateId, loadEntity,
\* isEntityExisting or create for a type that is not registered throws, has
\* acquired no connection and issued no statement, and leaves the registry, the
\* keys, the transactions and the database as they were.
C16_UnregisteredRejected ==
    [][(call'.op \in StoreOps /\ left' < left /\ Type \notin registry) =>
          /\ call'.thr
          /\ call'.acq = 0
          /\ call'.log = <<>>
          /\ UNCHANGED <<registry, mapping, key, txn, ent, dialect, conns, rows, pend, seq,
                         tables, sequences, stmts, cursors>>]_vars

\* insert in an open transaction has thrown while nothing was registered.
C16_Witness ==
    /\ call.op = "insert" /\ call.thr /\ call.acq = 0
    /\ call.t # NoTxn /\ registry = {}
    /\ \A t \in Txns : call.t = t => txn[t].state = "open" /\ txn[t].inserted = <<>>

\* The statements of kind k in the log of the world w.
Logged(w, k) == {i \in 1..Len(w.log) : w.log[i].k = k}

\* What the first defineEntity(Type, m) does when no JDBC call fails and the
\* mapping's types are in order, the pool's connections rejecting calls
\* after close or not.
FirstDefine(m, strict) == DefineEntity(World, Type, m, "integer", "none", strict).w

\* C20: the first registration of a type issues CREATE TABLE if and only if
\* the database has no table of the mapping's name, and CREATE SEQUENCE if and
\* only if the table was missing, the mapping declares a sequence and the
\* dialect has sequences.
C20_DdlConditions ==
    (registry = {} /\ CanCall) =>
        \A m \in PlainMappings, strict \in BOOLEAN :
            /\ Logged(FirstDefine(m, strict), "CREATE TABLE") # {} <=> TableName \notin tables
            /\ Logged(FirstDefine(m, strict), "CREATE SEQUENCE") # {} <=>
                  /\ TableName \notin tables
                  /\ m.hasIdSequence
                  /\ HasSequenceSupport(FirstDefine(m, strict).dialect)

\* The last call has inserted the row of its entity.
Inserted ==
    /\ call.op \in {"insert", "save"} /\ ~call.thr
    /\ \E i \in Issued("INSERT") : call.log[i].e = call.e

\* C18: the row an insert adds has, in the property's column, the value the
\* entity has for the property; it has the default instead when the entity
\* has no value for the property and the mapping declares a default, and only
\* then (the property then not being in the column list), also when the
\* column is named unlike the property.
C18_InsertColumns ==
    Inserted =>
        \E x \in rows :
            /\ x.id = idLog[Len(idLog)]
            /\ x.val = (IF IsNull(ent[call.e]) /\ mapping.default
                        THEN DefaultVal ELSE DbValue(World, ent[call.e]))

\* C21: when a first defineEntity has returned or thrown, the type it has put
\* in the registry has its table.
C21_RegistryImpliesTable ==
    [][(call'.op = "defineEntity" /\ Type \notin registry /\ Type \in registry') =>
          TableName \in tables']_vars

\* C22: every statement of defineEntity runs on a connection that is open,
\* and defineEntity closes as many connections as it has acquired.
C22_NoUseAfterClose ==
    call.op = "defineEntity" =>
        /\ \A i \in 1..Len(call.log) : call.log[i].open
        /\ call.closes = call.acq

\* C23: an insert called with an open transaction returns, whether or not
\* any transaction is closed.
C23_InsertTerminates ==
    \A p \in Callers : (pc[p] = "called") ~> (pc[p] = "idle")

WriteOps == {"insert", "update", "remove"}

\* The accumulators of the transactions.
Accumulators == [t \in PoolTxns |-> <<txn[t].inserted, txn[t].updated, txn[t].deleted>>]

\* C24: an insert, update or remove whose statement has not been executed
\* and that throws leaves the keys and the accumulators of the transactions
\* as they were; an accumulator grows only in a call whose statement has been
\* executed.
C24_FailedWriteNoEffect ==
    [][(call'.op \in WriteOps /\ left' < left) =>
          /\ (call'.thr /\ inserts' = inserts) => key' = key /\ Accumulators' = Accumulators
          /\ Accumulators' # Accumulators =>
                /\ \E i \in 1..Len(call'.log) :
                      call'.log[i].e = call'.e
                      /\ call'.log[i].k \in {"INSERT", "UPDATE", "DELETE"}
                /\ call'.op = "insert" => inserts' = inserts + 1
                /\ call'.op # "insert" => ~call'.thr]_vars

\* An insert in a transaction of a transient entity has thrown at its
\* statement.
C24_Witness ==
    /\ call.op = "insert" /\ call.thr /\ call.t # NoTxn
    /\ \E i \in 1..Len(call.log) : call.log[i].k = "INSERT"
    /\ key[call.e] = Null /\ inserts = 0
    /\ \A t \in Txns : call.t = t => txn[t].state = "open" /\ txn[t].inserted = <<>>

\* C25: a write without a transaction executes its statement with
\* autocommit enabled and read-only disabled, and a CREATE or DROP statement
\* of the schema utilities executes with read-only disabled, whatever the
\* connection has been used for before.
C25_ModeReset ==
    \A i \in 1..Len(call.log) :
        /\ (call.op \in WriteOps /\ call.t = NoTxn
              /\ call.log[i].k \in {"INSERT", "UPDATE", "DELETE"}) =>
                call.log[i].ac /\ ~call.log[i].ro
        /\ call.log[i].k \in {"CREATE TABLE", "CREATE SEQUENCE", "DROP"} =>
                ~call.log[i].ro

\* The second call of the store is an insert without a transaction, on the
\* connection on which a committed transaction has inserted with autocommit
\* off.
C25_Witness ==
    /\ call.op = "insert" /\ call.t = NoTxn /\ inserts = 2
    /\ \E i \in 1..Len(call.log), t \in Txns :
          /\ call.log[i].k = "INSERT" /\ call.log[i].ac /\ ~call.log[i].ro
          /\ txn[t].state = "closed" /\ txn[t].conn = call.log[i].c
          /\ Len(txn[t].inserted) = 1
    /\ left = MaxModeOps - 4

\* C26: for a single writer without transactions the id an insert assigns
\* differs from the ids earlier inserts have assigned: no two entities carry
\* the same id.
C26_NoIdReuse ==
    \A e1, e2 \in Ents :
        (e1 # e2 /\ key[e1] # Null /\ key[e2] # Null) => key[e1] # key[e2]

\* What isEntityExisting and loadEntity answer for the id of the key of the
\* last call.
ExistingAfter == IsEntityExisting(World, key[call.e], "none")
LoadedAfter == LoadEntity(World, key[call.e], "none")

\* C27: a successful remove without a transaction deletes exactly the rows
\* whose id is the id of the key; afterwards isEntityExisting is false and
\* loadEntity finds nothing for that id (asked for the id of a persistent
\* key: a query without an id selects every row); the keys, the registry,
\* the schema and the sequence are as before.
C27_RemoveEffectAndFrame ==
    /\ [](call.op = "remove" /\ call.t = NoTxn /\ ~call.thr /\ key[call.e] # Null =>
            /\ ~ExistingAfter.thr /\ ExistingAfter.ret = FALSE
            /\ ~LoadedAfter.thr /\ LoadedAfter.ret = {})
    /\ [][(call'.op = "remove" /\ call'.t = NoTxn /\ ~call'.thr /\ left' < left) =>
             /\ rows' = {x \in rows : x.id # key[call'.e]}
             /\ call'.ret = Cardinality({x \in rows : x.id = key[call'.e]})
             /\ key' = key
             /\ registry' = registry /\ mapping' = mapping
             /\ tables' = tables /\ sequences' = sequences /\ seq' = seq]_vars

\* A remove without a transaction has deleted the row of its key and left
\* the row of another entity in the table.
C27_Witness ==
    /\ call.op = "remove" /\ call.t = NoTxn /\ ~call.thr /\ call.ret = 1
    /\ key[call.e] # Null
    /\ \A x \in rows : x.id # key[call.e]
    /\ \E e \in Ents : e # call.e /\ key[e] # Null /\ \E x \in rows : x.id = key[e]

====
